---- MODULE Spec2Model ----
(***************************************************************************)
(* A model of the command line tools of rust-omfiles-tools:                *)
(*   om_temporal_to_spatial  the streaming [lat, lon, time] ->             *)
(*                           [time, lat, lon] conversion tool,             *)
(*   omdump                  the info dump / value extraction tool and its *)
(*                           variable path resolution,                     *)
(*   omview                  the heatmap viewer and its "<-" / "->"        *)
(*                           navigation through the time slices.           *)
(* The omfiles_rs reader and writer and the ndarray crate are external;    *)
(* they are modelled by the interface the tools use.                       *)
(***************************************************************************)
EXTENDS Integers, Sequences, FiniteSets

(***************************************************************************)
(* Bounds of the model.                                                    *)
(***************************************************************************)
\* largest extent of the lat and of the lon axis of a conversion input
MaxDim == 2
\* largest extent of the time axis of a conversion input
MaxT == 2
\* largest number of children of a node in the general family of trees
MaxKids == 2
\* largest number of "/"-separated segments of a path in the general family
MaxSegs == 2
\* depth below which every node of a tree has children
TreeDepth == 2
\* largest number of range arguments in the family of range arguments
MaxRanges == 2
\* largest extent of an axis of a file opened in the viewer
MaxViewDim == 3

VARIABLES
  \* ---- om_temporal_to_spatial ----
  cpc,            \* position of main
  argc,           \* args.len()
  inFile,         \* the input file as the reader presents it
  t,              \* the loop variable of `for t in 0..time_dim`
  slice,          \* time_slice_data / spatial_data of the current iteration
  liveBufs,       \* sizes (in elements) of the decoded slices alive in main
  peak,           \* largest total of liveBufs seen so far
  outDecl,        \* what prepare_array declared for the output array
  chunks,         \* the data handed to write_data, one entry per call
  wstate,         \* the array writer: "none", "appending", "finalized"
  metaWritten,    \* write_array succeeded
  trailerWritten, \* write_trailer succeeded
  log,            \* the reader/writer calls main made, in order
  \* ---- omdump ----
  dpc,            \* position of main
  dargs,          \* the command line: args.len(), args[2], args[3..]
  tree,           \* the variable tree of the file
  variable,       \* `variable`: the current node, as its path of child indices
  path_parts,     \* the path parts not yet traversed
  examined,       \* the parts the traversal has looked up among children
  ranges,         \* args[3..] through parse_range
  printed,        \* the "Variable:" paths the info dump printed, in order
  stderr,         \* what main wrote to standard error, in order
  readCalls,      \* calls of OmFileReader::read
  exitStatus,     \* how the process ended
  \* ---- omview ----
  vpc,               \* position of the viewer: main, or the running window
  chunking,          \* DataLoader.chunking, from --chunking
  viewDims,          \* reader.get_dimensions() of the opened file
  n_timestamps,      \* DataLoader.n_timestamps
  current_timestamp, \* App.current_timestamp
  plot_data,         \* App.plot_data: the slice it holds and its shape
  updateFailed       \* the last update_plot_data returned Err (it is printed)

convVars == <<cpc, argc, inFile, t, slice, liveBufs, peak, outDecl, chunks,
              wstate, metaWritten, trailerWritten, log>>

dumpVars == <<dpc, dargs, tree, variable, path_parts, examined, ranges, printed,
              stderr, readCalls, exitStatus>>

viewVars == <<vpc, chunking, viewDims, n_timestamps, current_timestamp,
              plot_data, updateFailed>>

vars == <<convVars, dumpVars, viewVars>>

(***************************************************************************)
(* Arithmetic helpers.                                                     *)
(***************************************************************************)
RECURSIVE Product(_)
Product(s) == IF Len(s) = 0 THEN 1 ELSE Head(s) * Product(Tail(s))

Max(a, b) == IF a >= b THEN a ELSE b

RECURSIVE SumSeq(_)
SumSeq(s) == IF Len(s) = 0 THEN 0 ELSE Head(s) + SumSeq(Tail(s))

(***************************************************************************)
(* ndarray: an array is a shape, strides (in elements) and a flat buffer.  *)
(***************************************************************************)
NoSlice == [shape |-> <<>>, strides |-> <<>>, data |-> <<>>]

\* row-major (C order) strides of a shape
DefaultStrides(shape) ==
  [d \in 1..Len(shape) |-> Product(SubSeq(shape, d + 1, Len(shape)))]

\* the multi-index (0-based) of the n-th element (0-based) in logical order
Unravel(n, shape) ==
  [d \in 1..Len(shape) |->
     (n \div Product(SubSeq(shape, d + 1, Len(shape)))) % shape[d]]

\* the element of arr at multi-index idx (0-based)
ArrAt(arr, idx) ==
  arr.data[1 + SumSeq([d \in 1..Len(idx) |-> idx[d] * arr.strides[d]])]

\* the elements of arr in logical (row-major over its shape) order
LogicalOrder(arr) ==
  [n \in 1..Product(arr.shape) |-> ArrAt(arr, Unravel(n - 1, arr.shape))]

\* ArrayBase::into_shape_clone on a standard-layout owned array: the buffer
\* is kept and only shape and strides change; a shape with another number of
\* elements is an error (NoSlice stands for Err)
IntoShapeClone(arr, shape) ==
  IF Product(shape) # Product(arr.shape) THEN NoSlice
  ELSE [shape |-> shape, strides |-> DefaultStrides(shape), data |-> arr.data]

\* ArrayBase::permuted_axes: axis d of the result is axis axes[d] of arr
\* (axes are 0-based as in the source)
PermutedAxes(arr, axes) ==
  [shape   |-> [d \in 1..Len(axes) |-> arr.shape[axes[d] + 1]],
   strides |-> [d \in 1..Len(axes) |-> arr.strides[axes[d] + 1]],
   data    |-> arr.data]

(***************************************************************************)
(* The input file of the conversion tool.                                  *)
(***************************************************************************)
Compressions == {"PforDelta2dInt16", "FpxXor2d"}
ScaleFactors == {1, 20}
AddOffsets == {0, 5}
Fills == {"index", "lat", "lon", "time"}

\* the decoded value stored at [i, j, k] of an input of dimensions dims
FillValue(fill, dims, i, j, k) ==
  CASE fill = "index" -> (i * dims[2] + j) * dims[3] + k
    [] fill = "lat" -> i
    [] fill = "lon" -> j
    [] OTHER -> k

InputFiles ==
  { [dims |-> <<x, y, tt>>, compression |-> c, scale_factor |-> s,
     add_offset |-> o, fill |-> f] :
      x \in 1..MaxDim, y \in 1..MaxDim, tt \in 0..MaxT, c \in Compressions,
      s \in ScaleFactors, o \in AddOffsets, f \in Fills }

\* OmFileReader::read of one range per dimension: the decoded sub-array, in
\* the file's axis order, as a standard-layout array
ReaderRead(file, rs) ==
  LET shape == [d \in 1..3 |-> rs[d][2] - rs[d][1]]
  IN [shape |-> shape, strides |-> DefaultStrides(shape),
      data |-> [n \in 1..Product(shape) |->
                  LET idx == Unravel(n - 1, shape)
                  IN FillValue(file.fill, file.dims, rs[1][1] + idx[1],
                               rs[2][1] + idx[2], rs[3][1] + idx[3])]]

(***************************************************************************)
(* om_temporal_to_spatial: main.                                           *)
(***************************************************************************)
lat_dim == inFile.dims[1]
lon_dim == inFile.dims[2]
\* faulty variant: the first axis is taken for the time axis
time_dim_first_axis == inFile.dims[1]
time_dim == inFile.dims[3]

\* faulty variant: the axes are left in input order
ReformattedInputOrder == <<lat_dim, lon_dim, time_dim>>
reformatted_dimensions == <<time_dim, lat_dim, lon_dim>>

rechunked_dimensions == <<1, lat_dim, lon_dim>>

\* faulty variant: lat and lon are swapped as well
SwappedAxes == <<2, 1, 0>>
SpatialAxes == <<2, 0, 1>>

\* faulty variant: the range ends one slice early
LoopContinuesShort(k) == k + 1 < time_dim
\* `for t in 0..time_dim`: the loop body runs for k
LoopContinues(k) == k < time_dim

\* faulty variant: every other slice is skipped
NextIndexSkip(k) == k + 2
NextIndex(k) == k + 1

\* faulty variant: a failure is ignored and main goes on
ExpectIgnored(ok, next) == next
\* Result::expect: main goes on when the call succeeded and panics otherwise
Expect(ok, next) == IF ok THEN next ELSE "panicked"

\* faulty variant: the slice is kept alive (collected) instead of dropped
KeepSlice(bufs) == bufs
\* the slice of the iteration is dropped at the end of the write statement
DropSlice(bufs) == SubSeq(bufs, 1, Len(bufs) - 1)

Event(op, k, ok) == [op |-> op, k |-> k, ok |-> ok]

ConvInit ==
  /\ cpc = "start"
  /\ argc \in {2, 3}
  /\ inFile \in InputFiles
  /\ t = 0
  /\ slice = NoSlice
  /\ liveBufs = <<>>
  /\ peak = 0
  /\ outDecl = <<>>
  /\ chunks = <<>>
  /\ wstate = "none"
  /\ metaWritten = FALSE
  /\ trailerWritten = FALSE
  /\ log = <<>>

\* lines 8-60: argument check, open the input, create the output, declare
\* the output array
ConvStart ==
  /\ cpc = "start"
  /\ \E opened \in BOOLEAN, prepared \in BOOLEAN :
       IF argc # 3
       THEN /\ cpc' = "exit1"
            /\ UNCHANGED <<outDecl, wstate>>
       ELSE IF ~opened
       THEN /\ cpc' = Expect(FALSE, "loop")
            /\ UNCHANGED <<outDecl, wstate>>
       ELSE /\ cpc' = Expect(prepared, "loop")
            /\ outDecl' = IF prepared
                          THEN <<[dims |-> reformatted_dimensions,
                                  chunks |-> rechunked_dimensions,
                                  compression |-> inFile.compression,
                                  scale_factor |-> inFile.scale_factor,
                                  add_offset |-> inFile.add_offset]>>
                          ELSE outDecl
            /\ wstate' = IF prepared THEN "appending" ELSE wstate
  /\ UNCHANGED <<dumpVars, viewVars>>
  /\ UNCHANGED <<argc, inFile, t, slice, liveBufs, peak, chunks, metaWritten,
                 trailerWritten, log>>

\* line 63: the loop head
ConvLoop ==
  /\ cpc = "loop"
  /\ cpc' = IF LoopContinues(t) THEN "read" ELSE "finalize"
  /\ UNCHANGED <<dumpVars, viewVars>>
  /\ UNCHANGED <<argc, inFile, t, slice, liveBufs, peak, outDecl, chunks,
                 wstate, metaWritten, trailerWritten, log>>

\* lines 65-69: read the time slice t and view it as a 3-D array
ConvRead ==
  /\ cpc = "read"
  /\ \E ok \in BOOLEAN :
       LET got == ReaderRead(inFile, <<<<0, lat_dim>>, <<0, lon_dim>>,
                                        <<t, t + 1>>>>)
           shaped == IntoShapeClone(got, <<lat_dim, lon_dim, 1>>)
           good == ok /\ shaped # NoSlice
       IN /\ cpc' = Expect(good, "write")
          /\ slice' = IF good THEN shaped ELSE NoSlice
          /\ liveBufs' = IF good THEN Append(liveBufs, Product(shaped.shape))
                         ELSE liveBufs
          /\ peak' = Max(peak, SumSeq(liveBufs'))
          /\ log' = Append(log, Event("read", t, good))
  /\ UNCHANGED <<dumpVars, viewVars>>
  /\ UNCHANGED <<argc, inFile, t, outDecl, chunks, wstate, metaWritten,
                 trailerWritten>>

\* lines 72-81: permute the axes, append the slice, drop it, next t
ConvWrite ==
  /\ cpc = "write"
  /\ \E ok \in BOOLEAN :
       LET spatial_data == PermutedAxes(slice, SpatialAxes)
       IN /\ cpc' = Expect(ok, "loop")
          /\ chunks' = IF ok /\ slice # NoSlice
                       THEN Append(chunks, [shape |-> spatial_data.shape,
                                            data |-> LogicalOrder(spatial_data)])
                       ELSE chunks
          /\ log' = Append(log, Event("append", t, ok))
  /\ slice' = NoSlice
  /\ liveBufs' = DropSlice(liveBufs)
  /\ t' = NextIndex(t)
  /\ UNCHANGED <<dumpVars, viewVars>>
  /\ UNCHANGED <<argc, inFile, peak, outDecl, wstate, metaWritten,
                 trailerWritten>>

\* line 84: writer.finalize()
ConvFinalize ==
  /\ cpc = "finalize"
  /\ wstate' = "finalized"
  /\ log' = Append(log, Event("finalize", t, TRUE))
  /\ cpc' = "write_array"
  /\ UNCHANGED <<dumpVars, viewVars>>
  /\ UNCHANGED <<argc, inFile, t, slice, liveBufs, peak, outDecl, chunks,
                 metaWritten, trailerWritten>>

\* lines 87-89: file_writer.write_array(variable_meta, "data", &[])
ConvWriteArray ==
  /\ cpc = "write_array"
  /\ \E ok \in BOOLEAN :
       /\ cpc' = Expect(ok, "write_trailer")
       /\ metaWritten' = ok
       /\ log' = Append(log, Event("write_array", t, ok))
  /\ UNCHANGED <<dumpVars, viewVars>>
  /\ UNCHANGED <<argc, inFile, t, slice, liveBufs, peak, outDecl, chunks,
                 wstate, trailerWritten>>

\* lines 90-96: file_writer.write_trailer(variable), then Ok(())
ConvWriteTrailer ==
  /\ cpc = "write_trailer"
  /\ \E ok \in BOOLEAN :
       /\ cpc' = Expect(ok, "done")
       /\ trailerWritten' = ok
       /\ log' = Append(log, Event("write_trailer", t, ok))
  /\ UNCHANGED <<dumpVars, viewVars>>
  /\ UNCHANGED <<argc, inFile, t, slice, liveBufs, peak, outDecl, chunks,
                 wstate, metaWritten>>

\* omview is not running
ViewIdle ==
  /\ vpc = "idle"
  /\ chunking = "Temporal"
  /\ viewDims = <<>>
  /\ n_timestamps = 0
  /\ current_timestamp = 0
  /\ plot_data = <<>>
  /\ updateFailed = FALSE

\* omdump is not running
DumpIdle ==
  /\ dpc = "idle"
  /\ dargs = [argc |-> 0, var_path |-> <<>>, range_args |-> <<>>]
  /\ tree = [name |-> <<>>, kids |-> <<>>, dims |-> <<>>]
  /\ variable = <<>>
  /\ path_parts = <<>>
  /\ examined = <<>>
  /\ ranges = <<>>
  /\ printed = <<>>
  /\ stderr = <<>>
  /\ readCalls = 0
  /\ exitStatus = "idle"

ConvNext ==
  \/ ConvStart
  \/ ConvLoop
  \/ ConvRead
  \/ ConvWrite
  \/ ConvFinalize
  \/ ConvWriteArray
  \/ ConvWriteTrailer

ConvertRun == ConvInit /\ DumpIdle /\ ViewIdle

SpecConvert == ConvertRun /\ [][ConvNext]_vars

\* main runs on one thread and is not suspended: a step that can be taken is
\* taken
SpecConvertFair == SpecConvert /\ WF_vars(ConvNext)

(***************************************************************************)
(* Strings are sequences of characters; Option<T> is a sequence of length  *)
(* 0 (None) or 1 (Some).                                                   *)
(***************************************************************************)
None == <<>>
Some(x) == <<x>>

sEmpty == <<>>
sA == <<"a">>
sB == <<"b">>
sSlash == <<"/">>
sDot == <<".">>
sDotDot == <<".", ".">>
sRoot == <<"r", "o", "o", "t">>
sUnnamed == <<"u", "n", "n", "a", "m", "e", "d">>
sChildPrefix == <<"c", "h", "i", "l", "d", "_">>
sChild0 == sChildPrefix \o <<"0">>
sChild1 == sChildPrefix \o <<"1">>
sChild2 == sChildPrefix \o <<"2">>
sChildX == sChildPrefix \o <<"x">>
sASlashB == <<"a", "/", "b">>
sChild5 == sChildPrefix \o <<"5">>
sMissing == <<"m", "i", "s", "s", "i", "n", "g">>

\* str::starts_with
StartsWith(s, pre) == Len(pre) <= Len(s) /\ SubSeq(s, 1, Len(pre)) = pre

\* str::split(sep) collected: the pieces between the leftmost
\* non-overlapping occurrences of sep; never empty
RECURSIVE SplitFrom(_, _, _, _)
SplitFrom(s, sep, i, cur) ==
  IF i > Len(s) THEN <<cur>>
  ELSE IF i + Len(sep) - 1 <= Len(s) /\ SubSeq(s, i, i + Len(sep) - 1) = sep
  THEN <<cur>> \o SplitFrom(s, sep, i + Len(sep), <<>>)
  ELSE SplitFrom(s, sep, i + 1, Append(cur, s[i]))

Split(s, sep) == SplitFrom(s, sep, 1, <<>>)

RECURSIVE Join(_, _)
Join(parts, sep) ==
  IF Len(parts) = 0 THEN <<>>
  ELSE IF Len(parts) = 1 THEN parts[1]
  ELSE parts[1] \o sep \o Join(Tail(parts), sep)

Digits == {"0", "1", "2", "3", "4", "5", "6", "7", "8", "9"}

DigitValue(c) ==
  CASE c = "0" -> 0 [] c = "1" -> 1 [] c = "2" -> 2 [] c = "3" -> 3
    [] c = "4" -> 4 [] c = "5" -> 5 [] c = "6" -> 6 [] c = "7" -> 7
    [] c = "8" -> 8 [] OTHER -> 9

RECURSIVE DigitsValue(_, _)
DigitsValue(s, acc) ==
  IF Len(s) = 0 THEN acc ELSE DigitsValue(Tail(s), acc * 10 + DigitValue(Head(s)))

DigitChar(d) ==
  CASE d = 0 -> "0" [] d = 1 -> "1" [] d = 2 -> "2" [] d = 3 -> "3"
    [] d = 4 -> "4" [] d = 5 -> "5" [] d = 6 -> "6" [] d = 7 -> "7"
    [] d = 8 -> "8" [] OTHER -> "9"

\* u32::to_string: the decimal digits of n
RECURSIVE U32ToString(_)
U32ToString(n) ==
  IF n < 10 THEN <<DigitChar(n)>>
  ELSE Append(U32ToString(n \div 10), DigitChar(n % 10))

\* str::parse::<u32>() and str::parse::<u64>(): None for Err. An optional
\* leading "+" and then at least one decimal digit; the strings of the model
\* are too short to overflow either type.
ParseUnsigned(s) ==
  LET digits == IF Len(s) > 0 /\ s[1] = "+" THEN Tail(s) ELSE s
  IN IF Len(digits) = 0 \/ \E p \in 1..Len(digits) : digits[p] \notin Digits
     THEN None
     ELSE Some(DigitsValue(digits, 0))

(***************************************************************************)
(* The variable tree of a file. A node is addressed by the indices of the  *)
(* children on the way to it from the root. The trees of the model are     *)
(* regular: every node above depth TreeDepth has children with the same    *)
(* list of names (tree.kids), the nodes at depth TreeDepth have none, and  *)
(* every node has the dimensions tree.dims.                                *)
(***************************************************************************)
RootNode == <<>>

\* OmFileReader::get_name
GetName(node) ==
  IF node = RootNode THEN tree.name ELSE tree.kids[node[Len(node)] + 1]

\* OmFileReader::number_of_children
NumberOfChildren(node) == IF Len(node) < TreeDepth THEN Len(tree.kids) ELSE 0

\* OmFileReader::get_child(i), for i < number_of_children
GetChild(node, i) == Append(node, i)

\* OmFileReader::get_dimensions
GetDimensions(node) == tree.dims

(***************************************************************************)
(* omdump: print_variable_info, the paths it prints.                       *)
(***************************************************************************)
\* faulty variant: nameless children are numbered from one
ChildNameOneBased(child, i) ==
  IF GetName(child) = None THEN sChildPrefix \o U32ToString(i + 1)
  ELSE GetName(child)[1]
\* the name the dump gives child i
ChildName(child, i) ==
  IF GetName(child) = None THEN sChildPrefix \o U32ToString(i) ELSE GetName(child)[1]

\* the path of the child
ChildPath(path, child_name) ==
  IF Len(path) = 0 THEN child_name ELSE path \o sSlash \o child_name

(***************************************************************************)
(* omdump: parse_range.                                                    *)
(***************************************************************************)
\* faulty variant: parts after the second are ignored
parse_range_first_two(range_str) ==
  LET parts == Split(range_str, sDotDot)
  IN IF Len(parts) < 2 THEN None
     ELSE IF ParseUnsigned(parts[1]) = None THEN None
     ELSE IF ParseUnsigned(parts[2]) = None THEN None
     ELSE Some(<<ParseUnsigned(parts[1])[1], ParseUnsigned(parts[2])[1]>>)
\* lines 58-66: None, or Some(<<start, end>>) for the range start..end
parse_range(range_str) ==
  LET parts == Split(range_str, sDotDot)
  IN IF Len(parts) # 2 THEN None
     ELSE IF ParseUnsigned(parts[1]) = None THEN None
     ELSE IF ParseUnsigned(parts[2]) = None THEN None
     ELSE Some(<<ParseUnsigned(parts[1])[1], ParseUnsigned(parts[2])[1]>>)

(***************************************************************************)
(* omdump: main, the path resolution.                                      *)
(***************************************************************************)
\* faulty variant: "." is not taken for the root
IsRootPathNoDot(var_path) == var_path = sEmpty \/ var_path = sRoot
\* line 122: the paths that denote the root
IsRootPath(var_path) ==
  var_path = sEmpty \/ var_path = sRoot \/ var_path = sDot

\* lines 122-126
PathParts(var_path) ==
  IF IsRootPath(var_path) THEN <<>> ELSE Split(var_path, sSlash)

\* faulty variant: a nameless root is matched by "unnamed" only
RootMatchesUnnamedOnly(root_name, first) ==
  \/ root_name # None /\ root_name[1] = first
  \/ root_name = None /\ first = sUnnamed
\* lines 133-137: root_matches
RootMatches(root_name, first) ==
  \/ root_name # None /\ root_name[1] = first
  \/ root_name = None /\ (first = sUnnamed \/ first = sChild0)

\* faulty variant: child indices are counted from 1
IndexMatchesOneBased(idx, i) == idx = i + 1
\* line 152: idx == i
IndexMatches(idx, i) == idx = i

\* lines 149-166: child i, of name `name`, is the one `part` asks for
ChildMatches(part, name, i) ==
  IF StartsWith(part, sChildPrefix)
  THEN LET idx == ParseUnsigned(SubSeq(part, Len(sChildPrefix) + 1, Len(part)))
       IN idx # None /\ IndexMatches(idx[1], i)
  ELSE IF part = sUnnamed /\ name = None THEN TRUE
  ELSE name = Some(part)

\* faulty variant: the children are searched from the last to the first
RECURSIVE FindChildLast(_, _, _)
FindChildLast(node, part, i) ==
  LET last == NumberOfChildren(node) - 1 - i
  IN IF i >= NumberOfChildren(node) THEN None
     ELSE IF ChildMatches(part, GetName(GetChild(node, last)), last)
     THEN Some(last)
     ELSE FindChildLast(node, part, i + 1)
\* lines 147-168: the inner loop from child i on; the index of the first
\* child that matches, None when the loop ends with found = false
RECURSIVE FindChild(_, _, _)
FindChild(node, part, i) ==
  IF i >= NumberOfChildren(node) THEN None
  ELSE IF ChildMatches(part, GetName(GetChild(node, i)), i) THEN Some(i)
  ELSE FindChild(node, part, i + 1)

(***************************************************************************)
(* omdump: the command lines and files of the model.                       *)
(***************************************************************************)
Opt(S) == {None} \cup {Some(x) : x \in S}

SeqsUpTo(S, n) == UNION {[1..k -> S] : k \in 0..n}

\* the names and segments of the general family
BasicNames == {sA, sUnnamed, sChild0}
BasicSegs == {sA, sB, sUnnamed, sChild0, sChild1}
\* the names of the families about one level
AllNames == {sA, sB, sUnnamed, sRoot, sDot, sChild0, sChild2, sChildX, sEmpty,
             sASlashB, sChild5}

r0to1 == <<"0", ".", ".", "1">>
r0to2 == <<"0", ".", ".", "2">>
r0to9 == <<"0", ".", ".", "9">>
r2to1 == <<"2", ".", ".", "1">>
r1to1 == <<"1", ".", ".", "1">>
r5 == <<"5">>
r0to1to2 == <<"0", ".", ".", "1", ".", ".", "2">>
r0dots1 == <<"0", ".", ".", ".", "1">>
rAto1 == <<"a", ".", ".", "1">>
r0toX == <<"0", ".", ".", "x">>
rOpen == <<"0", ".", ".">>
rPlus == <<"+", "1", ".", ".", "2">>
RangeTokens == {r0to1, r0to2, r0to9, r2to1, r1to1, r5, r0to1to2, r0dots1,
                rAto1, r0toX, rOpen, rPlus}

Tree(name, kids, dims) == [name |-> name, kids |-> kids, dims |-> dims]

CommandLine(n, var_path, range_args) ==
  [argc |-> n, var_path |-> var_path, range_args |-> range_args]

\* value reads on any small tree, any short path
GeneralReads(tr, cl) ==
  \E r \in Opt(BasicNames), k \in SeqsUpTo(Opt(BasicNames), MaxKids),
     segs \in SeqsUpTo(BasicSegs, MaxSegs) \cup {<<sRoot>>, <<sDot>>} :
    /\ tr = Tree(r, k, <<2>>)
    /\ cl = CommandLine(4, Join(segs, sSlash), <<r0to1>>)

\* value reads of "A" under a node with children [A, B, A]
SiblingReads(tr, cl) ==
  \E r \in Opt(AllNames), a \in AllNames, b \in Opt(AllNames) :
    /\ tr = Tree(r, <<Some(a), b, Some(a)>>, <<2>>)
    /\ cl = CommandLine(4, a, <<r0to1>>)

\* value reads of "child_0" and of the root under a root with one child
OnlyChildReads(tr, cl) ==
  \E r \in Opt(AllNames), c \in Opt(AllNames),
     p \in {sChild0, sEmpty, sRoot, sDot} :
    /\ tr = Tree(r, <<c>>, <<2>>)
    /\ cl = CommandLine(4, p, <<r0to1>>)

\* value reads of the root with any range arguments
RangeReads(tr, cl) ==
  \E d \in {<<2>>, <<2, 3>>}, a \in SeqsUpTo(RangeTokens, MaxRanges) \ {<<>>} :
    /\ tr = Tree(Some(sA), <<>>, d)
    /\ cl = CommandLine(3 + Len(a), sRoot, a)

\* value reads of a child by its name, and of "missing", under a root with
\* no, one or two children
ByNameReads(tr, cl) ==
  \E r \in Opt(AllNames \cup {sMissing}), c \in SeqsUpTo(Opt(AllNames), 1),
     p \in {sMissing} \cup AllNames :
    /\ tr = Tree(r, c \o (IF p = sMissing THEN <<>> ELSE <<Some(p)>>), <<2>>)
    /\ cl = CommandLine(4, p, <<r0to1>>)

\* info dumps, and command lines with too few arguments
OtherRuns(tr, cl) ==
  \E r \in Opt(BasicNames), k \in SeqsUpTo(Opt(BasicNames), MaxKids),
     n \in {1, 2, 3} :
    /\ tr = Tree(r, k, <<2>>)
    /\ cl = CommandLine(n, sEmpty, <<>>)

DumpRuns(tr, cl) ==
  \/ GeneralReads(tr, cl)
  \/ SiblingReads(tr, cl)
  \/ OnlyChildReads(tr, cl)
  \/ RangeReads(tr, cl)
  \/ ByNameReads(tr, cl)
  \/ OtherRuns(tr, cl)

(***************************************************************************)
(* omdump: print_variable_info and print_variable_data.                    *)
(***************************************************************************)
\* the "Variable:" lines of print_variable_info(reader, indent, path) and of
\* its recursive calls for the children from index i on
RECURSIVE PrintChildren(_, _, _)
PrintChildren(node, path, i) ==
  IF i >= NumberOfChildren(node) THEN <<>>
  ELSE LET child == GetChild(node, i)
           child_path == ChildPath(path, ChildName(child, i))
       IN <<child_path>> \o PrintChildren(child, child_path, 0)
            \o PrintChildren(node, path, i + 1)

PrintVariableInfo(node, path) == <<path>> \o PrintChildren(node, path, 0)

\* lines 43-53: the path under which print_variable_info prints the node
RECURSIVE DumpPath(_)
DumpPath(node) ==
  IF node = RootNode THEN sEmpty
  ELSE LET parent == SubSeq(node, 1, Len(node) - 1)
       IN ChildPath(DumpPath(parent), ChildName(node, node[Len(node)]))

\* OmFileReader::read accepts the ranges: one per dimension, each non-empty
\* and within the extent
RangesInBounds(dims, rs) ==
  /\ Len(rs) = Len(dims)
  /\ \A d \in 1..Len(dims) : rs[d][1] < rs[d][2] /\ rs[d][2] <= dims[d]

(***************************************************************************)
(* omdump: main.                                                           *)
(***************************************************************************)
DumpInit ==
  /\ dpc = "start"
  /\ DumpRuns(tree, dargs)
  /\ variable = RootNode
  /\ path_parts = <<>>
  /\ examined = <<>>
  /\ ranges = <<>>
  /\ printed = <<>>
  /\ stderr = <<>>
  /\ readCalls = 0
  /\ exitStatus = "running"

\* lines 103-126 and 194-197: the mode, the ranges, the file, the path parts
DumpStart ==
  /\ dpc = "start"
  /\ UNCHANGED <<convVars, viewVars>>
  /\ \E opened \in BOOLEAN :
       IF dargs.argc = 2
       THEN /\ dpc' = IF opened THEN "info" ELSE "exit"
            /\ exitStatus' = IF opened THEN exitStatus ELSE "error"
            /\ UNCHANGED <<ranges, path_parts, stderr>>
       ELSE IF dargs.argc >= 4
       THEN /\ ranges' = [i \in 1..Len(dargs.range_args) |->
                            parse_range(dargs.range_args[i])]
            /\ dpc' = IF opened THEN "root_check" ELSE "exit"
            /\ exitStatus' = IF opened THEN exitStatus ELSE "error"
            /\ path_parts' = IF opened THEN PathParts(dargs.var_path)
                             ELSE path_parts
            /\ UNCHANGED stderr
       ELSE /\ stderr' = Append(stderr, "usage")
            /\ dpc' = "exit"
            /\ exitStatus' = "ok"
            /\ UNCHANGED <<ranges, path_parts>>
  /\ UNCHANGED <<dargs, tree, variable, examined, printed, readCalls>>

\* lines 109-112: the info dump
DumpInfo ==
  /\ dpc = "info"
  /\ UNCHANGED <<convVars, viewVars>>
  /\ printed' = PrintVariableInfo(RootNode, sEmpty)
  /\ dpc' = "exit"
  /\ exitStatus' = "ok"
  /\ UNCHANGED <<dargs, tree, variable, path_parts, examined, ranges, stderr,
                 readCalls>>

\* lines 128-143: the first part may denote the root itself
DumpRootCheck ==
  /\ dpc = "root_check"
  /\ UNCHANGED <<convVars, viewVars>>
  /\ path_parts' = IF /\ path_parts # <<>>
                      /\ RootMatches(GetName(variable), path_parts[1])
                   THEN Tail(path_parts)
                   ELSE path_parts
  /\ dpc' = IF path_parts' = <<>> THEN "dims" ELSE "traverse"
  /\ UNCHANGED <<dargs, tree, variable, examined, ranges, printed, stderr,
                 readCalls, exitStatus>>

\* lines 145-174: one part of the path, looked up among the children
\* faulty variant: without the return, main goes on with the current node
NotFoundPcFallsThrough == "dims"
\* line 172: `return Ok(())` after the message and the usage text
NotFoundPc == "exit"

DumpTraverse ==
  /\ dpc = "traverse"
  /\ UNCHANGED <<convVars, viewVars>>
  /\ LET part == Head(path_parts)
         hit == FindChild(variable, part, 0)
     IN /\ examined' = Append(examined, part)
        /\ IF hit # None
           THEN /\ variable' = GetChild(variable, hit[1])
                /\ path_parts' = Tail(path_parts)
                /\ dpc' = IF path_parts' = <<>> THEN "dims" ELSE "traverse"
                /\ UNCHANGED <<stderr, exitStatus>>
           ELSE /\ stderr' = stderr \o <<"not_found", "usage">>
                /\ dpc' = NotFoundPc
                /\ exitStatus' = "ok"
                /\ UNCHANGED <<variable, path_parts>>
  /\ UNCHANGED <<dargs, tree, ranges, printed, readCalls>>

\* faulty variant: the number of ranges is not compared
RangesRejectedFormatOnly(rs, dims) == \E i \in 1..Len(rs) : rs[i] = None
\* line 181: the ranges cannot be used for a variable of dimensions dims
RangesRejected(rs, dims) ==
  \/ Len(rs) # Len(dims)
  \/ \E i \in 1..Len(rs) : rs[i] = None

\* lines 177-189: the ranges against the dimensions of the variable
DumpCheckRanges ==
  /\ dpc = "dims"
  /\ UNCHANGED <<convVars, viewVars>>
  /\ IF RangesRejected(ranges, GetDimensions(variable))
     THEN /\ stderr' = stderr \o <<"range_mismatch", "usage">>
          /\ dpc' = "exit"
          /\ exitStatus' = "ok"
     ELSE /\ dpc' = "read"
          /\ UNCHANGED <<stderr, exitStatus>>
  /\ UNCHANGED <<dargs, tree, variable, path_parts, examined, ranges, printed,
                 readCalls>>

\* lines 191-193 and 89-100: print_variable_data
DumpRead ==
  /\ dpc = "read"
  /\ UNCHANGED <<convVars, viewVars>>
  /\ readCalls' = readCalls + 1
  /\ \E io_ok \in BOOLEAN :
       LET rs == [i \in 1..Len(ranges) |-> ranges[i][1]]
       IN exitStatus' = IF io_ok /\ RangesInBounds(GetDimensions(variable), rs)
                        THEN "ok" ELSE "panicked"
  /\ dpc' = "exit"
  /\ UNCHANGED <<dargs, tree, variable, path_parts, examined, ranges, printed,
                 stderr>>

\* om_temporal_to_spatial is not running
ConvIdle ==
  /\ cpc = "idle"
  /\ argc = 0
  /\ inFile = [dims |-> <<>>]
  /\ t = 0
  /\ slice = NoSlice
  /\ liveBufs = <<>>
  /\ peak = 0
  /\ outDecl = <<>>
  /\ chunks = <<>>
  /\ wstate = "none"
  /\ metaWritten = FALSE
  /\ trailerWritten = FALSE
  /\ log = <<>>

DumpNext ==
  \/ DumpStart
  \/ DumpInfo
  \/ DumpRootCheck
  \/ DumpTraverse
  \/ DumpCheckRanges
  \/ DumpRead

DumpRun == DumpInit /\ ConvIdle /\ ViewIdle

SpecDump == DumpRun /\ [][DumpNext]_vars

(***************************************************************************)
(* omview: DataLoader, App and the navigation buttons. plot_data is kept   *)
(* as the index of the slice it holds and its shape; a read of the mapped  *)
(* file fails when the reader rejects the ranges.                          *)
(***************************************************************************)
\* line 32: `*dims.last().unwrap()`, whatever the chunking mode
NTimestamps(dims, mode) == dims[Len(dims)]

\* lines 46-71: the ranges of the slice of `timestamp`
TimestampRanges(timestamp) ==
  [i \in 1..Len(viewDims) |->
     IF (chunking = "Temporal" /\ i = Len(viewDims))
        \/ (chunking = "Spatial" /\ i = 1)
     THEN <<timestamp, timestamp + 1>>
     ELSE <<0, viewDims[i]>>]

\* lines 41-79: get_timestamp_data: None for Err, else the slice as
\* [rows, cols] array
GetTimestampData(timestamp) ==
  LET rows == IF chunking = "Temporal" THEN viewDims[1] ELSE viewDims[2]
      cols == IF chunking = "Temporal" THEN viewDims[2] ELSE viewDims[3]
  IN IF RangesInBounds(viewDims, TimestampRanges(timestamp))
     THEN Some([timestamp |-> timestamp, rows |-> rows, cols |-> cols])
     ELSE None

ViewInit ==
  /\ vpc = "start"
  /\ chunking \in {"Temporal", "Spatial"}
  /\ viewDims \in [1..3 -> 0..MaxViewDim]
  /\ n_timestamps = 0
  /\ current_timestamp = 0
  /\ plot_data = <<>>
  /\ updateFailed = FALSE

\* lines 258-277, 29-39 and 89-99: DataLoader::new, then App::new with the
\* slice of timestamp 0
ViewStart ==
  /\ vpc = "start"
  /\ \E opened \in BOOLEAN :
       IF ~opened
       THEN /\ vpc' = "panicked"
            /\ UNCHANGED <<n_timestamps, plot_data>>
       ELSE /\ n_timestamps' = NTimestamps(viewDims, chunking)
            /\ LET initial_data == GetTimestampData(0)
               IN IF initial_data = None
                  THEN vpc' = "panicked" /\ UNCHANGED plot_data
                  ELSE vpc' = "running" /\ plot_data' = initial_data
  /\ UNCHANGED <<chunking, viewDims, current_timestamp, updateFailed>>
  /\ UNCHANGED <<convVars, dumpVars>>

\* lines 101-106: update_plot_data, whose error update() only prints
UpdatePlotData(timestamp) ==
  LET data == GetTimestampData(timestamp)
  IN /\ plot_data' = IF data = None THEN plot_data ELSE data
     /\ updateFailed' = (data = None)

\* lines 113-118: a click on "<-"
ViewClickLeft ==
  /\ vpc = "running"
  /\ current_timestamp > 0
  /\ current_timestamp' = current_timestamp - 1
  /\ UpdatePlotData(current_timestamp')
  /\ UNCHANGED <<vpc, chunking, viewDims, n_timestamps>>
  /\ UNCHANGED <<convVars, dumpVars>>

\* lines 122-129: a click on "->"
ViewClickRight ==
  /\ vpc = "running"
  /\ current_timestamp < n_timestamps - 1
  /\ current_timestamp' = current_timestamp + 1
  /\ UpdatePlotData(current_timestamp')
  /\ UNCHANGED <<vpc, chunking, viewDims, n_timestamps>>
  /\ UNCHANGED <<convVars, dumpVars>>

ViewNext ==
  \/ ViewStart
  \/ ViewClickLeft
  \/ ViewClickRight

ViewRun == ViewInit /\ ConvIdle /\ DumpIdle

SpecView == ViewRun /\ [][ViewNext]_vars

(***************************************************************************)
(* Properties of the conversion tool.                                      *)
(***************************************************************************)
Appended(p) == {q \in 1..(p - 1) : log[q].op = "append" /\ log[q].ok}

\* the value found at [k, i, j] of the output, read through its declared
\* chunk layout [1, lat, lon]: chunk k, row-major offset of (i, j)
OutAt(k, i, j) == chunks[k + 1].data[1 + i * lon_dim + j]

RECURSIVE Concat(_)
Concat(cs) == IF Len(cs) = 0 THEN <<>> ELSE Head(cs).data \o Concat(Tail(cs))

\* the whole output as an array of the declared dimensions
OutputArray ==
  [shape |-> outDecl[1].dims, strides |-> DefaultStrides(outDecl[1].dims),
   data |-> Concat(chunks)]

\* the output carried back to the input's axis order [lat, lon, time]
BackToInputOrder == PermutedAxes(OutputArray, <<1, 2, 0>>)

\* C1: the metadata record is written only after all time_dim slices were
\* appended and the writer was finalized, the trailer only after the
\* metadata record was written successfully, and nothing is appended after
\* finalize.
C1_MetadataAfterData ==
  /\ \A p \in 1..Len(log) :
       /\ log[p].op = "write_array" =>
            /\ \E q \in 1..(p - 1) : log[q].op = "finalize"
            /\ Cardinality(Appended(p)) = time_dim
       /\ log[p].op = "write_trailer" =>
            \E q \in 1..(p - 1) : log[q].op = "write_array" /\ log[q].ok
       /\ log[p].op = "finalize" =>
            \A q \in (p + 1)..Len(log) : log[q].op # "append"
  /\ metaWritten => wstate = "finalized" /\ Len(chunks) = time_dim
  /\ trailerWritten => metaWritten

C1_Witness ==
  /\ trailerWritten
  /\ time_dim >= 2
  /\ Len(chunks) = time_dim

\* C2: slices are appended for k = 0, 1, ..., T-1 in this order, each once;
\* slice k is read before it is appended and appended before slice k+1 is
\* read; at finalize exactly T slices have been appended.
C2_SequentialAppend ==
  /\ \A p \in 1..Len(log) :
       /\ (log[p].op \in {"read", "append"} /\ p % 2 = 1) =>
            log[p].op = "read" /\ log[p].k = (p - 1) \div 2
       /\ (log[p].op \in {"read", "append"} /\ p % 2 = 0) =>
            /\ log[p].op = "append" /\ log[p].k = (p \div 2) - 1
            /\ log[p - 1] = Event("read", log[p].k, TRUE)
       /\ log[p].op = "finalize" =>
            /\ p = 2 * time_dim + 1
            /\ Cardinality(Appended(p)) = time_dim
            /\ Len(chunks) = time_dim
  /\ Len(chunks) = Cardinality(Appended(Len(log) + 1))

C2_Witness ==
  /\ wstate = "finalized"
  /\ time_dim >= 2
  /\ Cardinality(Appended(Len(log) + 1)) = time_dim

\* C3: a failed read, append or metadata write is the last call main makes:
\* nothing is read or appended after it and the trailer is not written, so
\* a written trailer means that every earlier call succeeded.
C3_AbortOnFailure ==
  /\ \A p \in 1..Len(log) :
       ~log[p].ok => p = Len(log) /\ cpc = "panicked" /\ ~trailerWritten
  /\ trailerWritten => \A p \in 1..Len(log) : log[p].ok
  /\ cpc = "panicked" => ~trailerWritten

C3_Witness ==
  /\ cpc = "panicked"
  /\ Len(log) >= 3
  /\ log[Len(log)].op = "read"
  /\ ~log[Len(log)].ok
  /\ Len(chunks) = 1
  /\ time_dim >= 2

\* C4: an input of dimensions [X, Y, T] is declared in the output with
\* dimensions [T, X, Y], chunk shape [1, X, Y] and the input's compression,
\* scale factor and add-offset.
C4_OutputDeclaration ==
  outDecl # <<>> =>
    /\ outDecl[1].dims = <<inFile.dims[3], inFile.dims[1], inFile.dims[2]>>
    /\ outDecl[1].chunks = <<1, inFile.dims[1], inFile.dims[2]>>
    /\ outDecl[1].compression = inFile.compression
    /\ outDecl[1].scale_factor = inFile.scale_factor
    /\ outDecl[1].add_offset = inFile.add_offset

C4_Witness ==
  /\ outDecl # <<>>
  /\ inFile.dims[1] # inFile.dims[2]
  /\ inFile.dims[3] # inFile.dims[1]
  /\ inFile.dims[3] # inFile.dims[2]

\* C5: the value written at output coordinate [k, i, j] is the value read
\* from input coordinate [i, j, k], and once the conversion is done the
\* output permuted back to [X, Y, T] equals the input at every coordinate.
C5_AxisPermutation ==
  /\ \A k \in 0..(Len(chunks) - 1) :
       /\ chunks[k + 1].shape = <<1, lat_dim, lon_dim>>
       /\ \A i \in 0..(lat_dim - 1), j \in 0..(lon_dim - 1) :
            OutAt(k, i, j) = FillValue(inFile.fill, inFile.dims, i, j, k)
  /\ cpc = "done" =>
       /\ BackToInputOrder.shape = inFile.dims
       /\ \A i \in 0..(lat_dim - 1), j \in 0..(lon_dim - 1),
             k \in 0..(time_dim - 1) :
            ArrAt(BackToInputOrder, <<i, j, k>>) =
              FillValue(inFile.fill, inFile.dims, i, j, k)

C5_Witness ==
  /\ cpc = "done"
  /\ inFile.fill = "index"
  /\ lat_dim >= 2 /\ lon_dim >= 2 /\ time_dim >= 2

\* C6: main holds at most one decoded slice of X*Y elements at any time:
\* the slice of k is released before the slice of k+1 is read, so the peak
\* does not grow with T.
C6_OneSliceHeld ==
  /\ Len(liveBufs) <= 1
  /\ SumSeq(liveBufs) <= lat_dim * lon_dim
  /\ peak <= lat_dim * lon_dim
  /\ cpc = "read" => liveBufs = <<>>

C6_Witness ==
  /\ cpc = "done"
  /\ time_dim >= 2
  /\ peak = lat_dim * lon_dim

(***************************************************************************)
(* Properties of the path resolution of omdump.                            *)
(***************************************************************************)
\* a value read run is past the path resolution (the file was opened)
ResolutionEnded ==
  /\ dargs.argc >= 4
  /\ dpc \in {"dims", "read", "exit"}
  /\ exitStatus # "error"

NotFound == \E p \in 1..Len(stderr) : stderr[p] = "not_found"

\* the resolution returned node
Returned(node) == ResolutionEnded /\ ~NotFound /\ variable = node

\* the root has children named [A, B, A] and the path is "A"
SiblingsABA ==
  /\ Len(tree.kids) = 3
  /\ tree.kids[1] = Some(dargs.var_path)
  /\ tree.kids[3] = Some(dargs.var_path)
  /\ tree.kids[2] # Some(dargs.var_path)

\* the segment is looked up by exact name: no alias rule takes it
ExactNameSegment(seg) ==
  /\ seg # sEmpty /\ seg # sRoot /\ seg # sDot
  /\ ~StartsWith(seg, sChildPrefix)
  /\ \A p \in 1..Len(seg) : seg[p] # "/"

\* the starting node takes the segment for itself
ConsumedByStart(seg) ==
  \/ tree.name = Some(seg)
  \/ tree.name = None /\ seg \in {sUnnamed, sChild0}

OnlyChildByIndex ==
  /\ Len(tree.kids) = 1
  /\ dargs.var_path = sChild0

\* C8 as stated: from a root with exactly one child, "child_0" returns that
\* child whatever the names of the child and of the root.
C8_OnlyChildAlways ==
  (OnlyChildByIndex /\ ResolutionEnded) => Returned(<<0>>)

\* C8 amended: from a root with exactly one child, "child_0" returns that
\* child whatever the child's name, provided the root is named and its name
\* is not "child_0"; a nameless root, or one named "child_0", takes the
\* segment for itself and the root is returned.
C8_OnlyChildByIndex ==
  (OnlyChildByIndex /\ ResolutionEnded) =>
    IF tree.name = None \/ tree.name = Some(sChild0)
    THEN Returned(RootNode)
    ELSE Returned(<<0>>)

C8_Witness ==
  /\ tree.name = Some(sA)
  /\ tree.kids = <<None>>
  /\ dargs.var_path = sChild0
  /\ Returned(<<0>>)

\* C9: the empty path, "root" and "." return the root without descending,
\* whatever the names of the root and of its children.
C9_RootPaths ==
  (dargs.argc >= 4 /\ dargs.var_path \in {sEmpty, sRoot, sDot}) =>
    /\ variable = RootNode
    /\ examined = <<>>
    /\ ~NotFound
    /\ ResolutionEnded => Returned(RootNode)

C9_Witness ==
  /\ dargs.var_path = sDot
  /\ tree.name = Some(sA)
  /\ tree.kids = <<Some(sDot)>>
  /\ Returned(RootNode)

\* C10: a first segment that equals the starting node's name, or is
\* "unnamed" or "child_0" under a nameless starting node, is taken by the
\* starting node, and only the remaining segments are looked up among
\* children; this happens for the first segment only and once: from a root
\* named "a", "a/a" returns the first child named "a".
C10_FirstSegmentOnStart ==
  (/\ dargs.argc >= 4
   /\ dargs.var_path \notin {sEmpty, sRoot, sDot}
   /\ dpc \in {"traverse", "dims", "read", "exit"}
   /\ exitStatus # "error") =>
    LET parts == Split(dargs.var_path, sSlash)
        rest == IF ConsumedByStart(parts[1]) THEN Tail(parts) ELSE parts
    IN /\ Len(examined) <= Len(rest)
       /\ examined = SubSeq(rest, 1, Len(examined))
       /\ ~NotFound => examined \o path_parts = rest
       /\ Len(variable) = IF NotFound THEN Len(examined) - 1 ELSE Len(examined)
       /\ (tree.name = Some(sA) /\ parts = <<sA, sA>> /\ Returned(variable)) =>
            /\ Len(variable) = 1
            /\ tree.kids[variable[1] + 1] = Some(sA)
            /\ \A i \in 1..variable[1] : tree.kids[i] # Some(sA)

C10_Witness ==
  /\ tree.name = Some(sA)
  /\ tree.kids = <<None, Some(sA)>>
  /\ dargs.var_path = <<"a", "/", "a">>
  /\ Returned(<<1>>)

\* child i of node is one that the segment may select: by the index alias,
\* by the alias "unnamed", or by its name
SegmentSelects(seg, node, i) ==
  \/ /\ StartsWith(seg, sChildPrefix)
     /\ ParseUnsigned(SubSeq(seg, Len(sChildPrefix) + 1, Len(seg))) = Some(i)
  \/ seg = sUnnamed /\ GetName(GetChild(node, i)) = None
  \/ GetName(GetChild(node, i)) = Some(seg)

MatchesNoChild(seg, node) ==
  \A i \in 0..(NumberOfChildren(node) - 1) : ~SegmentSelects(seg, node, i)

\* the node among whose children the d-th looked-up segment was searched
LookupNode(d) == SubSeq(variable, 1, d - 1)

\* C11 as stated: on a childless root every segment matches no child, so
\* resolving any path with a segment ("missing", "a", ...) on a childless
\* root is not-found.
C11_ChildlessAlwaysNotFound ==
  (/\ tree.kids = <<>>
   /\ dargs.var_path \notin {sEmpty, sRoot, sDot}
   /\ ResolutionEnded) => NotFound

\* C11 amended: resolution fails with not-found at the first segment that
\* is looked up among the children of the current node and matches none of
\* them: no later segment is examined, the resolution stays unreturned at
\* the current node, and no read of array data is issued. A first segment
\* that the starting node takes for itself is not looked up among children:
\* resolving "missing" on a childless root is not-found unless the root is
\* itself named "missing", and then the root is returned.
C11_NotFoundStops ==
  /\ \A d \in 1..Len(examined) :
       MatchesNoChild(examined[d], LookupNode(d)) =>
         /\ NotFound
         /\ d = Len(examined)
         /\ variable = LookupNode(d)
         /\ path_parts # <<>> /\ Head(path_parts) = examined[d]
         /\ dpc = "exit"
         /\ readCalls = 0
         /\ ~Returned(variable)
  /\ NotFound => dpc = "exit" /\ readCalls = 0
  /\ (tree.kids = <<>> /\ dargs.var_path = sMissing /\ ResolutionEnded) =>
       IF tree.name = Some(sMissing)
       THEN Returned(RootNode) /\ examined = <<>>
       ELSE NotFound /\ examined = <<sMissing>>

C11_Witness ==
  /\ tree.name = Some(sA)
  /\ tree.kids = <<>>
  /\ dargs.var_path = sMissing
  /\ NotFound
  /\ examined = <<sMissing>>
  /\ dpc = "exit"
  /\ readCalls = 0

\* message p was written to standard error
OnStderr(msg) == \E p \in 1..Len(stderr) : stderr[p] = msg

\* the run ended on wrong arguments, an unresolved path or unusable ranges
EndedOnUsageError ==
  /\ dpc = "exit"
  /\ \/ dargs.argc # 2 /\ dargs.argc < 4
     \/ OnStderr("not_found")
     \/ OnStderr("range_mismatch")

\* C12: every run that ends because of a wrong argument count, an
\* unparseable range token, an unresolved variable path or a range count
\* different from the dimension count prints the usage message to standard
\* error and terminates with a non-zero exit status.
C12_UsageExitsNonZero ==
  EndedOnUsageError => OnStderr("usage") /\ exitStatus # "ok"

\* a bound that str::parse::<u64> takes: decimal digits, at least one, after
\* an optional "+"
NumericBound(b) ==
  LET ds == IF Len(b) > 0 /\ b[1] = "+" THEN Tail(b) ELSE b
  IN Len(ds) > 0 /\ \A p \in 1..Len(ds) : ds[p] \in Digits

\* the token is "<start>..<end>" with two numeric bounds
WellFormedToken(tok) ==
  \E p \in 1..(Len(tok) - 1) :
    /\ tok[p] = "." /\ tok[p + 1] = "."
    /\ NumericBound(SubSeq(tok, 1, p - 1))
    /\ NumericBound(SubSeq(tok, p + 2, Len(tok)))

\* what each token of the model stands for
ExpectedRange(tok) ==
  CASE tok = r0to1 -> Some(<<0, 1>>)
    [] tok = r0to2 -> Some(<<0, 2>>)
    [] tok = r0to9 -> Some(<<0, 9>>)
    [] tok = r2to1 -> Some(<<2, 1>>)
    [] tok = r1to1 -> Some(<<1, 1>>)
    [] tok = rPlus -> Some(<<1, 2>>)
    [] OTHER -> None

\* C13: parse_range accepts exactly the tokens "<start>..<end>" with two
\* unsigned numeric bounds and returns start..end: a token without "..",
\* with more than one delimiter or with a non-numeric bound is rejected,
\* and "b..a" with b >= a is accepted unchanged.
C13_ParseRange ==
  (dargs.argc >= 4 /\ dpc # "start") =>
    /\ Len(ranges) = Len(dargs.range_args)
    /\ \A i \in 1..Len(ranges) :
         /\ ranges[i] # None <=> WellFormedToken(dargs.range_args[i])
         /\ ranges[i] = ExpectedRange(dargs.range_args[i])

C13_Witness ==
  /\ dargs.range_args = <<r2to1, r0to1to2>>
  /\ ranges = <<Some(<<2, 1>>), None>>

\* the range arguments cannot be used for the resolved variable
UnusableRanges ==
  \/ Len(dargs.range_args) # Len(GetDimensions(variable))
  \/ \E i \in 1..Len(dargs.range_args) : ~WellFormedToken(dargs.range_args[i])

\* C14: in value-read mode a malformed range token, or a number of ranges
\* different from the resolved variable's dimension count, is reported
\* before any read of array data: the read is issued only when every token
\* parsed and the range count equals the dimension count.
C14_RangesCheckedBeforeRead ==
  /\ (dpc = "read" \/ readCalls > 0) =>
       ~UnusableRanges /\ ~OnStderr("range_mismatch")
  /\ OnStderr("range_mismatch") => dpc = "exit" /\ readCalls = 0
  /\ (Returned(variable) /\ dpc = "exit" /\ UnusableRanges) =>
       OnStderr("range_mismatch") /\ readCalls = 0

C14_Witness ==
  /\ GetDimensions(variable) = <<2, 3>>
  /\ dargs.range_args = <<r0to1>>
  /\ dpc = "exit"
  /\ OnStderr("range_mismatch")
  /\ readCalls = 0

\* the read request has a range that ends beyond its dimension or is empty
OutOfBoundsRequest ==
  /\ Len(ranges) = Len(GetDimensions(variable))
  /\ \A i \in 1..Len(ranges) : ranges[i] # None
  /\ \E i \in 1..Len(ranges) :
       \/ ranges[i][1][2] > GetDimensions(variable)[i]
       \/ ranges[i][1][2] <= ranges[i][1][1]

\* C15: every read request in which some range i has end > dimensions[i]
\* or end <= start fails with an error value that is returned to the
\* caller: print_variable_data hands the error to main, and main ends with
\* it.
C15_OutOfBoundsReturned ==
  (dpc = "exit" /\ readCalls > 0 /\ OutOfBoundsRequest) =>
    exitStatus = "error"

ChildIndices(node) == 0..(NumberOfChildren(node) - 1)

Nameless(node, i) == GetName(GetChild(node, i)) = None

Named(node, i, seg) == GetName(GetChild(node, i)) = Some(seg)

\* the index alias or the alias "unnamed" selects child i of node
AliasSelects(seg, node, i) ==
  \/ /\ StartsWith(seg, sChildPrefix)
     /\ ParseUnsigned(SubSeq(seg, Len(sChildPrefix) + 1, Len(seg))) = Some(i)
  \/ seg = sUnnamed /\ Nameless(node, i)

\* the d-th looked-up segment was found, at child i
FoundAt(d, i) == d <= Len(variable) /\ variable[d] = i

\* C16: at every tree level the segment "unnamed" resolves to the first
\* child, in index order, whose name is absent, also when an earlier sibling
\* is literally named "unnamed".
C16_UnnamedFirstNameless ==
  \A d \in 1..Len(examined) :
    \A i \in ChildIndices(LookupNode(d)) :
      (/\ examined[d] = sUnnamed
       /\ Nameless(LookupNode(d), i)
       /\ \A j \in 0..(i - 1) : ~Nameless(LookupNode(d), j)) => FoundAt(d, i)

\* C17: at every tree level a segment that no alias rule matches resolves to
\* the first child whose name equals the segment text, for every segment
\* text, names that begin with "child_" included.
C17_ExactNameAnyText ==
  \A d \in 1..Len(examined) :
    \A i \in ChildIndices(LookupNode(d)) :
      (/\ \A j \in ChildIndices(LookupNode(d)) :
            ~AliasSelects(examined[d], LookupNode(d), j)
       /\ Named(LookupNode(d), i, examined[d])
       /\ \A j \in 0..(i - 1) : ~Named(LookupNode(d), j, examined[d])) =>
        FoundAt(d, i)

\* the nodes of the tree
TreeNodes == SeqsUpTo(0..(Len(tree.kids) - 1), TreeDepth)

\* the node from which node n is looked up, and n's index under it
ParentOf(n) == SubSeq(n, 1, Len(n) - 1)

\* the printed name of node n is a plain name that finds n among its
\* siblings: n is nameless (printed as child_<i>), or its name is not
\* empty, holds no "/", does not begin with "child_", is not carried by an
\* earlier sibling and, when it is "unnamed", no earlier sibling is nameless
FoundByPrintedName(n) ==
  LET i == n[Len(n)]
      name == GetName(n)
  IN \/ name = None
     \/ /\ name[1] # sEmpty
        /\ \A p \in 1..Len(name[1]) : name[1][p] # "/"
        /\ ~StartsWith(name[1], sChildPrefix)
        /\ \A j \in 0..(i - 1) : ~Named(ParentOf(n), j, name[1])
        /\ name[1] = sUnnamed => \A j \in 0..(i - 1) : ~Nameless(ParentOf(n), j)

\* the printed path of node n is resolved segment by segment among
\* children down to n
RoundTrips(n) ==
  \/ n = RootNode
  \/ /\ DumpPath(n) \notin {sRoot, sDot}
     /\ ~ConsumedByStart(ChildName(<<n[1]>>, n[1]))
     /\ \A d \in 1..Len(n) : FoundByPrintedName(SubSeq(n, 1, d))

Calls(op) == {p \in 1..Len(log) : log[p].op = op}

\* main returned Ok(()) after T loop iterations
ConvertedAll ==
  /\ cpc = "done"
  /\ Cardinality(Calls("read")) = inFile.dims[3]
  /\ Cardinality(Calls("append")) = inFile.dims[3]
  /\ Len(chunks) = inFile.dims[3]
  /\ wstate = "finalized"
  /\ metaWritten
  /\ trailerWritten

\* C19: when no read or write fails, the conversion terminates for every
\* finite T, T = 0 included: every run either ends on a failed call (or on
\* the argument check), or eventually finalizes the writer and writes the
\* metadata record and the trailer after exactly T loop iterations.
C19_Terminates ==
  /\ <>(cpc \in {"done", "panicked", "exit1"})
  /\ [](cpc = "panicked" =>
          \/ log = <<>>
          \/ ~log[Len(log)].ok)
  /\ [](cpc = "done" => ConvertedAll)

C19_Witness ==
  /\ inFile.dims[3] = 0
  /\ ConvertedAll
  /\ chunks = <<>>

\* the extent of the time axis in the selected chunking mode
TimeExtent == IF chunking = "Temporal" THEN viewDims[3] ELSE viewDims[1]

\* C20: in the viewer, after any sequence of "<-" and "->" clicks,
\* current_timestamp is a valid index along the time axis of the selected
\* chunking mode (below the last extent in temporal mode, below the first
\* in spatial mode), every slice read succeeded and plot_data is the slice
\* of current_timestamp.
C20_TimestampValid ==
  vpc = "running" =>
    /\ current_timestamp < TimeExtent
    /\ ~updateFailed
    /\ plot_data[1].timestamp = current_timestamp

====
